---------------------------- MODULE Spec2Model ----------------------------
(***************************************************************************)
(* Model of src/src/index.ts: the version bumper of a React Native project.*)
(*                                                                         *)
(* Text is a sequence of one-character strings.  A platform file is a      *)
(* sequence of lines; a line is a record [k, q, v]: k says which of the    *)
(* patterns of the source the line matches ("code", "mv", "vcode",         *)
(* "vname", or "other" for a line none of them matches), v is the text of  *)
(* the capture group and q the quote character of a versionName line.      *)
(* JavaScript's undefined string is the one-element text UNDEF, its NaN    *)
(* the number NaN and an undefined array element the number UndefNum.      *)
(***************************************************************************)
EXTENDS Integers, Sequences, FiniteSets, TLC

\* ------------------------------------------------------------------ bounds

\* Number of manager calls a caller of the API makes (SpecApi).
MaxCalls == 3

\* ------------------------------------------------------------ JS values

NaN == -1

UndefNum == -2

UNDEF == <<"undefined">>

NULLTXT == <<"null">>

Digits == <<"0", "1", "2", "3", "4", "5", "6", "7", "8", "9">>

IsDigit(ch) == \E i \in 1..10 : Digits[i] = ch

DigitVal(ch) == (CHOOSE i \in 1..10 : Digits[i] = ch) - 1

RECURSIVE DigitPrefix(_)
DigitPrefix(s) ==
    IF s = <<>> \/ ~IsDigit(Head(s)) THEN <<>>
    ELSE <<Head(s)>> \o DigitPrefix(Tail(s))

RECURSIVE DigitsValue(_)
DigitsValue(s) ==
    IF s = <<>> THEN 0
    ELSE DigitsValue(SubSeq(s, 1, Len(s) - 1)) * 10 + DigitVal(s[Len(s)])

RECURSIVE NatText(_)
NatText(n) ==
    IF n < 10 THEN <<Digits[n + 1]>>
    ELSE NatText(n \div 10) \o <<Digits[(n % 10) + 1]>>

\* String(x) of a number, as a template literal renders it.
NumText(n) == IF n = NaN THEN <<"N", "a", "N">> ELSE NatText(n)

\* An element of Array.prototype.join: undefined joins as the empty text.
JoinText(n) == IF n = UndefNum THEN <<>> ELSE NumText(n)

\* x + 1 on a JS number: NaN and undefined give NaN.
Plus1(n) == IF n < 0 THEN NaN ELSE n + 1

\* -------------------------------------------------------------- helpers

RECURSIVE split(_, _)
split(sep, str) ==
    IF \E i \in 1..Len(str) : str[i] = sep
    THEN LET i == CHOOSE j \in 1..Len(str) :
                    str[j] = sep /\ \A h \in 1..(j - 1) : str[h] # sep
         IN  <<SubSeq(str, 1, i - 1)>> \o split(sep, SubSeq(str, i + 1, Len(str)))
    ELSE <<str>>

parseDecimal(it) ==
    LET p == DigitPrefix(it) IN IF p = <<>> THEN NaN ELSE DigitsValue(p)

parseSemVer(str) ==
    LET parts == split(".", str) IN [i \in 1..Len(parts) |-> parseDecimal(parts[i])]

\* Unary plus on a captured \d+ text (or on undefined).
ToNumber(s) == IF s = UNDEF THEN NaN ELSE parseDecimal(s)

\* Index of the first line the pattern `kind` matches, 0 when none does.
FirstMatch(kind, text) ==
    IF \E i \in 1..Len(text) : text[i].k = kind
    THEN CHOOSE i \in 1..Len(text) :
             text[i].k = kind /\ \A h \in 1..(i - 1) : text[h].k # kind
    ELSE 0

\* matchFirst never throws: [].concat(null) is [null], whose second element
\* is undefined.
matchFirst(kind, value) ==
    LET i == FirstMatch(kind, value) IN IF i = 0 THEN UNDEF ELSE value[i].v

\* str.replace with a /g pattern: every matching line is rewritten.
replaceAll(kind, replacement, str) ==
    [i \in 1..Len(str) |->
        IF str[i].k = kind THEN [str[i] EXCEPT !.v = replacement] ELSE str[i]]

\* str.replace with a pattern without /g: the first matching line only.
replaceFirst(kind, replacement, str) ==
    LET i == FirstMatch(kind, str)
    IN  IF i = 0 THEN str ELSE [str EXCEPT ![i].v = replacement]

Dot(a, b, c) == JoinText(a) \o <<".">> \o JoinText(b) \o <<".">> \o JoinText(c)

Part(parts, i) == IF i <= Len(parts) THEN parts[i] ELSE UndefNum

NoType == "undefined"

\* Variant of incrementSemVer: the lower components are not reset.
incrementSemVer_NoReset(current, type) ==
    IF current = UNDEF THEN [err |-> "TypeError", value |-> UNDEF]
    ELSE LET parts == parseSemVer(current)
             major == Part(parts, 1)
             minor == Part(parts, 2)
             patch == Part(parts, 3)
         IN  CASE type = "major" ->
                    [err |-> "none", value |-> Dot(Plus1(major), minor, patch)]
               [] type = "minor" ->
                    [err |-> "none", value |-> Dot(major, Plus1(minor), patch)]
               [] type = "patch" ->
                    [err |-> "none", value |-> Dot(major, minor, Plus1(patch))]
               [] OTHER ->
                    [err |-> "is not a semver type", value |-> UNDEF]

\* Result [err, value]; parseSemVer(undefined) is a TypeError.
incrementSemVer(current, type) ==
    IF current = UNDEF THEN [err |-> "TypeError", value |-> UNDEF]
    ELSE LET parts == parseSemVer(current)
             major == Part(parts, 1)
             minor == Part(parts, 2)
             patch == Part(parts, 3)
         IN  CASE type = "major" ->
                    [err |-> "none", value |-> Dot(Plus1(major), 0, 0)]
               [] type = "minor" ->
                    [err |-> "none", value |-> Dot(major, Plus1(minor), 0)]
               [] type = "patch" ->
                    [err |-> "none", value |-> Dot(major, minor, Plus1(patch))]
               [] OTHER ->
                    [err |-> "is not a semver type", value |-> UNDEF]

\* ------------------------------------------------------------- managers

\* A manager: content (null until loaded), and how often it has read its
\* file and called its basePath function.
NewManager == [loaded |-> FALSE, text |-> <<>>, nread |-> 0, nresolve |-> 0]

\* Variant of read: loads whenever the buffer is falsy, `if (!this.content)`.
read_WhenFalsy(m, file) ==
    IF ~m.loaded \/ m.text = <<>>
    THEN [loaded |-> TRUE, text |-> file,
          nread |-> m.nread + 1, nresolve |-> m.nresolve + 1]
    ELSE m

\* BaseFileManager.read on a manager whose file holds `file`.
read(m, file) ==
    IF ~m.loaded
    THEN [loaded |-> TRUE, text |-> file,
          nread |-> m.nread + 1, nresolve |-> m.nresolve + 1]
    ELSE m

\* Variant of Truthy: `if (this.content !== null)`.
Truthy_NotNull(m) == m.loaded

\* `if (this.content)`: null and the empty string are both falsy.
Truthy(m) == m.loaded /\ m.text # <<>>

\* BaseFileManager.write: the manager after the call (basePath is called again).
writeManager(m) == IF Truthy(m) THEN [m EXCEPT !.nresolve = @ + 1] ELSE m

\* BaseFileManager.write: the file after the call.
writeFile(m, file) == IF Truthy(m) THEN m.text ELSE file

\* Variant of bumpProjectVersion: a counter pattern without the /g flag.
bumpProjectVersion_FirstOnly(m, file) ==
    LET r == read(m, file)
        currentCode == parseDecimal(matchFirst("code", r.text))
        nextCode == Plus1(currentCode)
    IN  [m |-> [r EXCEPT !.text = replaceFirst("code", NumText(nextCode), r.text)],
         err |-> "none",
         current |-> NumText(currentCode), next |-> NumText(nextCode)]

bumpProjectVersion(m, file) ==
    LET r == read(m, file)
        currentCode == parseDecimal(matchFirst("code", r.text))
        nextCode == Plus1(currentCode)
    IN  [m |-> [r EXCEPT !.text = replaceAll("code", NumText(nextCode), r.text)],
         err |-> "none",
         current |-> NumText(currentCode), next |-> NumText(nextCode)]

setMarketingVersion(m, file, nextVersion) ==
    LET r == read(m, file)
        currentVersion == matchFirst("mv", r.text)
    IN  [m |-> [r EXCEPT !.text = replaceAll("mv", nextVersion, r.text)],
         err |-> "none",
         current |-> currentVersion, next |-> nextVersion]

getCurrentMarketingVersion(m, file) ==
    LET r == read(m, file)
    IN  [m |-> r, err |-> "none", text |-> matchFirst("mv", r.text), num |-> NaN]

getCurrentProjectVersion(m, file) ==
    LET r == read(m, file)
    IN  [m |-> r, err |-> "none", text |-> UNDEF,
         num |-> ToNumber(matchFirst("code", r.text))]

bumpCode(m, file) ==
    LET r == read(m, file)
        versionMatch == matchFirst("vcode", r.text)
        current == parseDecimal(versionMatch)
        next == Plus1(current)
    IN  IF next = NaN
        THEN [m |-> r, err |-> "Invalid versionCode version parsed",
              current |-> NumText(current), next |-> NumText(next)]
        ELSE [m |-> [r EXCEPT !.text = replaceFirst("vcode", NumText(next), r.text)],
              err |-> "none",
              current |-> NumText(current), next |-> NumText(next)]

\* The captured versionName text, quotes included.
Quoted(line) == <<line.q>> \o line.v \o <<line.q>>

\* current.replace(/[^"']+/, next) on the capture of a versionName line: the
\* first run of non-quote characters becomes next; an empty name has no
\* such run and stays as it is.
newVersionName(line, next) == IF line.v = <<>> THEN line.v ELSE next

setVersionName(m, file, next) ==
    LET r == read(m, file)
        i == FirstMatch("vname", r.text)
    IN  IF i = 0
        THEN [m |-> r, err |-> "TypeError", current |-> UNDEF, next |-> next]
        ELSE [m |-> [r EXCEPT !.text =
                        replaceFirst("vname", newVersionName(r.text[i], next), r.text)],
              err |-> "none",
              current |-> Quoted(r.text[i]), next |-> next]

getVersionName(m, file) ==
    LET r == read(m, file)
        i == FirstMatch("vname", r.text)
    IN  IF i = 0
        THEN [m |-> r, err |-> "TypeError", text |-> UNDEF, num |-> NaN]
        ELSE [m |-> r, err |-> "none", text |-> r.text[i].v, num |-> NaN]

getVersionCode(m, file) ==
    LET r == read(m, file)
    IN  [m |-> r, err |-> "none", text |-> UNDEF,
         num |-> parseDecimal(matchFirst("vcode", r.text))]

\* PackageJSONManager: the text of its record is the version field; the
\* file is [valid, version], valid being whether JSON.parse accepts it.
readPackage(m, file) ==
    IF ~m.loaded
    THEN IF file.valid
         THEN [loaded |-> TRUE, text |-> file.version,
               nread |-> m.nread + 1, nresolve |-> m.nresolve + 1]
         ELSE [m EXCEPT !.nread = @ + 1, !.nresolve = @ + 1]
    ELSE m

getVersion(m, file) ==
    LET r == readPackage(m, file)
    IN  IF r.loaded
        THEN [m |-> r, err |-> "none", text |-> r.text]
        ELSE [m |-> r, err |-> "SyntaxError", text |-> UNDEF]

setVersion(m, file, next) ==
    LET g == getVersion(m, file)
    IN  IF g.err # "none"
        THEN [m |-> g.m, err |-> g.err, current |-> UNDEF, next |-> next]
        ELSE [m |-> [g.m EXCEPT !.text = next], err |-> "none",
              current |-> g.text, next |-> next]

\* PackageJSONManager.write: a loaded record is an object, hence truthy.
writePackageManager(m) == IF m.loaded THEN [m EXCEPT !.nresolve = @ + 1] ELSE m

writePackageFile(m, file) ==
    IF m.loaded THEN [valid |-> TRUE, version |-> m.text] ELSE file

\* ---------------------------------------------------------------- state

VARIABLES
    cfg,          \* Configs: type, semver, skipSemverFor, skipCodeFor, versionFile
    disk,         \* the files: ios, android, package, summary
    disk0,        \* the files as they were when the invocation started
    pbx,          \* PBXManager
    buildGradle,  \* BuildGradleManager
    packageJSON,  \* PackageJSONManager
    pc,           \* position of run()
    err,          \* the error that ended the invocation, "none" otherwise
    failedAt,     \* the position at which it was thrown
    next,         \* dryRun's local `next`
    out,          \* console.log lines
    events,       \* manager calls, console lines and file writes, in order
    calls,        \* manager methods an API caller has called, in order
    ret           \* what the last of them returned

vars == <<cfg, disk, disk0, pbx, buildGradle, packageJSON, pc, err, failedAt,
          next, out, events, calls, ret>>

\* ---------------------------------------------------------------- inputs

Other == [k |-> "other", q |-> "", v |-> <<>>]

Code(c) == [k |-> "code", q |-> "", v |-> c]

MV(v) == [k |-> "mv", q |-> "", v |-> v]

VCode(c) == [k |-> "vcode", q |-> "", v |-> c]

VName(q, v) == [k |-> "vname", q |-> q, v |-> v]

V_1_10_6 == <<"1", ".", "1", "0", ".", "6">>

V_0_9_9 == <<"0", ".", "9", ".", "9">>

V_9_9_9 == <<"9", ".", "9", ".", "9">>

V_1_2 == <<"1", ".", "2">>

V_2_0_0 == <<"2", ".", "0", ".", "0">>

IosFiles ==
    { <<Other, Code(<<"2", "4">>), MV(V_1_10_6), Other>>,
      <<Code(<<"9">>), MV(V_0_9_9), Code(<<"2", "4">>), MV(V_1_10_6)>>,
      <<>>,
      <<Other, MV(V_1_10_6)>>,
      <<Code(<<"2", "4">>), Other>> }

AndroidFiles ==
    { <<Other, VCode(<<"2", "3">>), VName("\"", V_1_10_6)>>,
      <<VCode(<<"0", "9">>), VName("'", V_0_9_9), Other>>,
      <<Other, VName("\"", V_1_10_6)>>,
      <<VCode(<<"2", "3">>), Other>>,
      <<VCode(<<"2", "3">>), VName("\"", <<>>)>>,
      <<>> }

PackageFiles ==
    { [valid |-> TRUE, version |-> V_1_10_6],
      [valid |-> TRUE, version |-> V_9_9_9],
      [valid |-> TRUE, version |-> V_1_2],
      [valid |-> TRUE, version |-> UNDEF],
      [valid |-> FALSE, version |-> UNDEF] }

Types == {NoType, "major", "minor", "patch", "premajor"}

NoSemver == UNDEF

Semvers == {NoSemver, V_2_0_0}

SkipSets == {{}, {"ios"}, {"android"}, {"all"}}

NoVersionFile == ""

VersionFiles == {NoVersionFile, "version.json"}

Configs ==
    [type : Types, semver : Semvers, skipSemverFor : SkipSets,
     skipCodeFor : SkipSets, versionFile : VersionFiles]

NoInfo == [versionName |-> UNDEF, versionCode |-> NULLTXT]

NoSummary == [exists |-> FALSE, android |-> NoInfo, ios |-> NoInfo]

Disks ==
    [ios : IosFiles, android : AndroidFiles, package : PackageFiles,
     summary : {NoSummary}]

NoReturn ==
    [err |-> "none", current |-> UNDEF, next |-> UNDEF, text |-> UNDEF, num |-> NaN]

Init ==
    /\ cfg \in Configs
    /\ disk \in Disks
    /\ disk0 = disk
    /\ pbx = NewManager
    /\ buildGradle = NewManager
    /\ packageJSON = NewManager
    /\ pc = "dryRun"
    /\ err = "none"
    /\ failedAt = "none"
    /\ next = UNDEF
    /\ out = <<>>
    /\ events = <<>>
    /\ calls = <<>>
    /\ ret = NoReturn

\* ------------------------------------------------------------------ run()

Line(tag, current, nxt) == [tag |-> tag, current |-> current, next |-> nxt]

\* An exception leaves run(): nothing catches it.
Throw(e) ==
    /\ pc' = "failed"
    /\ err' = e
    /\ failedAt' = pc

Goto(p) ==
    /\ pc' = p
    /\ UNCHANGED <<err, failedAt>>

\* Variant of targetVersion: the explicit version is not consulted.
targetVersion_IgnoresSemver(current) ==
    incrementSemVer(current, IF cfg.type = NoType THEN "minor" ELSE cfg.type)

\* Variant of targetVersion: the kind is passed on without the default.
targetVersion_NoDefaultKind(current) ==
    IF cfg.semver # NoSemver
    THEN [err |-> "none", value |-> cfg.semver]
    ELSE incrementSemVer(current, cfg.type)

\* dryRun, line 319: semver ?? incrementSemVer(current, type ?? "minor").
targetVersion(current) ==
    IF cfg.semver # NoSemver
    THEN [err |-> "none", value |-> cfg.semver]
    ELSE incrementSemVer(current, IF cfg.type = NoType THEN "minor" ELSE cfg.type)

\* dryRun, lines 317-321: read the manifest version and compute next.
DryRunBegin ==
    /\ pc = "dryRun"
    /\ LET g == getVersion(packageJSON, disk.package)
           n == IF g.err # "none"
                THEN [err |-> g.err, value |-> UNDEF]
                ELSE targetVersion(g.text)
       IN  /\ packageJSON' = g.m
           /\ IF g.err # "none" THEN Throw(g.err) /\ UNCHANGED next
              ELSE IF n.err # "none" THEN Throw(n.err) /\ UNCHANGED next
              ELSE /\ next' = n.value
                   /\ Goto(IF "all" \notin cfg.skipCodeFor
                           THEN "bumpCodes.ios" ELSE "checkType")
    /\ UNCHANGED <<cfg, disk, disk0, pbx, buildGradle, out, events, calls, ret>>

\* Variant of BumpCodesIos: the bumped buffer is written to its file at once.
BumpCodesIos_WriteThrough ==
    /\ pc = "bumpCodes.ios"
    /\ IF "ios" \notin cfg.skipCodeFor
       THEN LET r == bumpProjectVersion(pbx, disk.ios)
            IN  /\ pbx' = r.m
                /\ disk' = [disk EXCEPT !.ios = r.m.text]
                /\ out' = Append(out, Line("iOS project.pbxproj code", r.current, r.next))
                /\ events' = events \o <<"bump:ios", "log:ios.code">>
       ELSE UNCHANGED <<pbx, disk, out, events>>
    /\ Goto("bumpCodes.android")
    /\ UNCHANGED <<cfg, disk0, buildGradle, packageJSON, next, calls, ret>>

\* bumpCodes, lines 285-291.
BumpCodesIos ==
    /\ pc = "bumpCodes.ios"
    /\ IF "ios" \notin cfg.skipCodeFor
       THEN LET r == bumpProjectVersion(pbx, disk.ios)
            IN  /\ pbx' = r.m
                /\ out' = Append(out, Line("iOS project.pbxproj code", r.current, r.next))
                /\ events' = events \o <<"bump:ios", "log:ios.code">>
       ELSE UNCHANGED <<pbx, out, events>>
    /\ Goto("bumpCodes.android")
    /\ UNCHANGED <<cfg, disk, disk0, buildGradle, packageJSON, next, calls, ret>>

\* Variant of BumpCodesAndroid: the skip test names the other platform.
BumpCodesAndroid_ChecksIos ==
    /\ pc = "bumpCodes.android"
    /\ IF "ios" \notin cfg.skipCodeFor
       THEN LET r == bumpCode(buildGradle, disk.android)
            IN  /\ buildGradle' = r.m
                /\ IF r.err # "none"
                   THEN Throw(r.err) /\ events' = Append(events, "bump:android")
                        /\ UNCHANGED out
                   ELSE /\ out' = Append(out,
                                Line("Android build.gradle code", r.current, r.next))
                        /\ events' = events \o <<"bump:android", "log:android.code">>
                        /\ Goto("checkType")
       ELSE UNCHANGED <<buildGradle, out, events>> /\ Goto("checkType")
    /\ UNCHANGED <<cfg, disk, disk0, pbx, packageJSON, next, calls, ret>>

\* bumpCodes, lines 293-299.
BumpCodesAndroid ==
    /\ pc = "bumpCodes.android"
    /\ IF "android" \notin cfg.skipCodeFor
       THEN LET r == bumpCode(buildGradle, disk.android)
            IN  /\ buildGradle' = r.m
                /\ IF r.err # "none"
                   THEN Throw(r.err) /\ events' = Append(events, "bump:android")
                        /\ UNCHANGED out
                   ELSE /\ out' = Append(out,
                                Line("Android build.gradle code", r.current, r.next))
                        /\ events' = events \o <<"bump:android", "log:android.code">>
                        /\ Goto("checkType")
       ELSE UNCHANGED <<buildGradle, out, events>> /\ Goto("checkType")
    /\ UNCHANGED <<cfg, disk, disk0, pbx, packageJSON, next, calls, ret>>

\* dryRun, lines 325-333.
DryRunCheckType ==
    /\ pc = "checkType"
    /\ IF "all" \in cfg.skipSemverFor THEN Goto("write.pbx")
       ELSE IF cfg.type = NoType THEN Throw("SemVer type not specified")
       ELSE Goto("syncSemver.ios")
    /\ UNCHANGED <<cfg, disk, disk0, pbx, buildGradle, packageJSON, next, out,
                   events, calls, ret>>

\* syncSemver, lines 261-267.
SyncSemverIos ==
    /\ pc = "syncSemver.ios"
    /\ IF "ios" \notin cfg.skipSemverFor
       THEN LET r == setMarketingVersion(pbx, disk.ios, next)
            IN  /\ pbx' = r.m
                /\ out' = Append(out,
                        Line("iOS project.pbxproj version", r.current, r.next))
                /\ events' = events \o <<"set:ios", "log:ios.version">>
       ELSE UNCHANGED <<pbx, out, events>>
    /\ Goto("syncSemver.android")
    /\ UNCHANGED <<cfg, disk, disk0, buildGradle, packageJSON, next, calls, ret>>

\* Variant of SyncSemverAndroid: the build file is written right after the set.
SyncSemverAndroid_WriteThrough ==
    /\ pc = "syncSemver.android"
    /\ IF "android" \notin cfg.skipSemverFor
       THEN LET r == setVersionName(buildGradle, disk.android, next)
            IN  /\ buildGradle' = r.m
                /\ IF r.err # "none"
                   THEN Throw(r.err) /\ events' = Append(events, "set:android")
                        /\ UNCHANGED <<out, disk>>
                   ELSE /\ out' = Append(out,
                                Line("Android gradle.build version", r.current, r.next))
                        /\ disk' = [disk EXCEPT !.android = r.m.text]
                        /\ events' = events \o
                              <<"set:android", "log:android.version", "write:android">>
                        /\ Goto("syncSemver.package")
       ELSE UNCHANGED <<buildGradle, out, events, disk>> /\ Goto("syncSemver.package")
    /\ UNCHANGED <<cfg, disk0, pbx, packageJSON, next, calls, ret>>

\* syncSemver, lines 269-275.
SyncSemverAndroid ==
    /\ pc = "syncSemver.android"
    /\ IF "android" \notin cfg.skipSemverFor
       THEN LET r == setVersionName(buildGradle, disk.android, next)
            IN  /\ buildGradle' = r.m
                /\ IF r.err # "none"
                   THEN Throw(r.err) /\ events' = Append(events, "set:android")
                        /\ UNCHANGED out
                   ELSE /\ out' = Append(out,
                                Line("Android gradle.build version", r.current, r.next))
                        /\ events' = events \o <<"set:android", "log:android.version">>
                        /\ Goto("syncSemver.package")
       ELSE UNCHANGED <<buildGradle, out, events>> /\ Goto("syncSemver.package")
    /\ UNCHANGED <<cfg, disk, disk0, pbx, packageJSON, next, calls, ret>>

\* syncSemver, lines 277-279.
SyncSemverPackage ==
    /\ pc = "syncSemver.package"
    /\ LET r == setVersion(packageJSON, disk.package, next)
       IN  /\ packageJSON' = r.m
           /\ IF r.err # "none"
              THEN Throw(r.err) /\ events' = Append(events, "set:package")
                   /\ UNCHANGED out
              ELSE /\ out' = Append(out, Line("package.json", r.current, r.next))
                   /\ events' = events \o <<"set:package", "log:package">>
                   /\ Goto("write.pbx")
    /\ UNCHANGED <<cfg, disk, disk0, pbx, buildGradle, next, calls, ret>>

\* run, line 305.
WritePbx ==
    /\ pc = "write.pbx"
    /\ disk' = [disk EXCEPT !.ios = writeFile(pbx, @)]
    /\ pbx' = writeManager(pbx)
    /\ events' = IF Truthy(pbx) THEN Append(events, "write:ios") ELSE events
    /\ Goto("write.buildGradle")
    /\ UNCHANGED <<cfg, disk0, buildGradle, packageJSON, next, out, calls, ret>>

\* run, line 306.
WriteBuildGradle ==
    /\ pc = "write.buildGradle"
    /\ disk' = [disk EXCEPT !.android = writeFile(buildGradle, @)]
    /\ buildGradle' = writeManager(buildGradle)
    /\ events' = IF Truthy(buildGradle) THEN Append(events, "write:android") ELSE events
    /\ Goto("write.package")
    /\ UNCHANGED <<cfg, disk0, pbx, packageJSON, next, out, calls, ret>>

\* run, lines 307-308.
WritePackage ==
    /\ pc = "write.package"
    /\ disk' = [disk EXCEPT !.package = writePackageFile(packageJSON, @)]
    /\ packageJSON' = writePackageManager(packageJSON)
    /\ events' = IF packageJSON.loaded THEN Append(events, "write:package") ELSE events
    /\ Goto(IF cfg.versionFile # NoVersionFile THEN "saveVersionFile" ELSE "done")
    /\ UNCHANGED <<cfg, disk0, pbx, buildGradle, next, out, calls, ret>>

\* JSON.stringify of a number: NaN is written as null.
JsonNumber(n) == IF n = NaN THEN NULLTXT ELSE NatText(n)

\* saveVersionFile, lines 336-352.
SaveVersionFile ==
    /\ pc = "saveVersionFile"
    /\ LET an == getVersionName(buildGradle, disk.android)
           ac == getVersionCode(an.m, disk.android)
           iv == getCurrentMarketingVersion(pbx, disk.ios)
           ic == getCurrentProjectVersion(iv.m, disk.ios)
           info == [exists |-> TRUE,
                    android |-> [versionName |-> an.text,
                                 versionCode |-> JsonNumber(ac.num)],
                    ios |-> [versionName |-> iv.text,
                             versionCode |-> JsonNumber(ic.num)]]
       IN  IF an.err # "none"
           THEN /\ buildGradle' = an.m
                /\ Throw(an.err)
                /\ UNCHANGED <<disk, pbx, out, events>>
           ELSE /\ buildGradle' = ac.m
                /\ pbx' = ic.m
                /\ disk' = [disk EXCEPT !.summary = info]
                /\ out' = Append(out, Line("Version file saved at", UNDEF, UNDEF))
                /\ events' = events \o <<"write:summary", "log:summary">>
                /\ Goto("done")
    /\ UNCHANGED <<cfg, disk0, packageJSON, next, calls, ret>>

Next ==
    \/ DryRunBegin
    \/ BumpCodesIos
    \/ BumpCodesAndroid
    \/ DryRunCheckType
    \/ SyncSemverIos
    \/ SyncSemverAndroid
    \/ SyncSemverPackage
    \/ WritePbx
    \/ WriteBuildGradle
    \/ WritePackage
    \/ SaveVersionFile

Spec == Init /\ [][Next]_vars

\* ------------------------------------------------- the managers' own API
\* apiVersioner returns the ProjectFilesManager, whose pbx, buildGradle and
\* packageJSON are public: a caller may call their methods directly.  The
\* managers share no state, so a behaviour exercises one of them.

DefaultIos == <<Other, Code(<<"2", "4">>), MV(V_1_10_6), Other>>

DefaultAndroid == <<Other, VCode(<<"2", "3">>), VName("\"", V_1_10_6)>>

DefaultPackage == [valid |-> TRUE, version |-> V_1_10_6]

ApiDisks ==
    { d \in Disks :
        \/ d.android = DefaultAndroid /\ d.package = DefaultPackage
        \/ d.ios = DefaultIos /\ d.package = DefaultPackage
        \/ d.ios = DefaultIos /\ d.android = DefaultAndroid }

InitApi ==
    /\ cfg = [type |-> "patch", semver |-> NoSemver, skipSemverFor |-> {},
              skipCodeFor |-> {}, versionFile |-> NoVersionFile]
    /\ disk \in ApiDisks
    /\ disk0 = disk
    /\ pbx = NewManager
    /\ buildGradle = NewManager
    /\ packageJSON = NewManager
    /\ pc = "api"
    /\ err = "none"
    /\ failedAt = "none"
    /\ next = UNDEF
    /\ out = <<>>
    /\ events = <<>>
    /\ calls = <<>>
    /\ ret = NoReturn

\* The caller calls method op of manager mgr.
Call(mgr, op) ==
    /\ pc = "api"
    /\ Len(calls) < MaxCalls
    /\ \A i \in 1..Len(calls) : calls[i].mgr = mgr
    /\ calls' = Append(calls, [mgr |-> mgr, op |-> op])
    /\ UNCHANGED <<cfg, disk0, pc, err, failedAt, next, out>>

\* What a bump or a set returned, or the error it threw.
Returned(r) ==
    [err |-> r.err, current |-> r.current, next |-> r.next, text |-> UNDEF, num |-> NaN]

\* What a getter returned, or the error it threw.
Got(r) ==
    [err |-> r.err, current |-> UNDEF, next |-> UNDEF, text |-> r.text, num |-> r.num]

PbxBumpProjectVersion ==
    /\ Call("pbx", "bumpProjectVersion")
    /\ LET r == bumpProjectVersion(pbx, disk.ios)
       IN  pbx' = r.m /\ ret' = Returned(r)
    /\ UNCHANGED <<disk, buildGradle, packageJSON, events>>

PbxSetMarketingVersion ==
    /\ Call("pbx", "setMarketingVersion")
    /\ \E v \in Semvers \ {NoSemver} :
        LET r == setMarketingVersion(pbx, disk.ios, v)
        IN  pbx' = r.m /\ ret' = Returned(r)
    /\ UNCHANGED <<disk, buildGradle, packageJSON, events>>

PbxGetCurrentMarketingVersion ==
    /\ Call("pbx", "getCurrentMarketingVersion")
    /\ LET r == getCurrentMarketingVersion(pbx, disk.ios)
       IN  pbx' = r.m /\ ret' = Got(r)
    /\ UNCHANGED <<disk, buildGradle, packageJSON, events>>

PbxGetCurrentProjectVersion ==
    /\ Call("pbx", "getCurrentProjectVersion")
    /\ LET r == getCurrentProjectVersion(pbx, disk.ios)
       IN  pbx' = r.m /\ ret' = Got(r)
    /\ UNCHANGED <<disk, buildGradle, packageJSON, events>>

PbxWrite ==
    /\ Call("pbx", "write")
    /\ disk' = [disk EXCEPT !.ios = writeFile(pbx, @)]
    /\ pbx' = writeManager(pbx)
    /\ events' = IF Truthy(pbx) THEN Append(events, "write:ios") ELSE events
    /\ ret' = NoReturn
    /\ UNCHANGED <<buildGradle, packageJSON>>

GradleBumpCode ==
    /\ Call("buildGradle", "bumpCode")
    /\ LET r == bumpCode(buildGradle, disk.android)
       IN  buildGradle' = r.m /\ ret' = Returned(r)
    /\ UNCHANGED <<disk, pbx, packageJSON, events>>

GradleSetVersionName ==
    /\ Call("buildGradle", "setVersionName")
    /\ \E v \in Semvers \ {NoSemver} :
        LET r == setVersionName(buildGradle, disk.android, v)
        IN  buildGradle' = r.m /\ ret' = Returned(r)
    /\ UNCHANGED <<disk, pbx, packageJSON, events>>

GradleGetVersionName ==
    /\ Call("buildGradle", "getVersionName")
    /\ LET r == getVersionName(buildGradle, disk.android)
       IN  buildGradle' = r.m /\ ret' = Got(r)
    /\ UNCHANGED <<disk, pbx, packageJSON, events>>

GradleGetVersionCode ==
    /\ Call("buildGradle", "getVersionCode")
    /\ LET r == getVersionCode(buildGradle, disk.android)
       IN  buildGradle' = r.m /\ ret' = Got(r)
    /\ UNCHANGED <<disk, pbx, packageJSON, events>>

GradleWrite ==
    /\ Call("buildGradle", "write")
    /\ disk' = [disk EXCEPT !.android = writeFile(buildGradle, @)]
    /\ buildGradle' = writeManager(buildGradle)
    /\ events' = IF Truthy(buildGradle) THEN Append(events, "write:android") ELSE events
    /\ ret' = NoReturn
    /\ UNCHANGED <<pbx, packageJSON>>

PackageGetVersion ==
    /\ Call("packageJSON", "getVersion")
    /\ LET r == getVersion(packageJSON, disk.package)
       IN  packageJSON' = r.m /\ ret' = [NoReturn EXCEPT !.err = r.err, !.text = r.text]
    /\ UNCHANGED <<disk, pbx, buildGradle, events>>

PackageSetVersion ==
    /\ Call("packageJSON", "setVersion")
    /\ \E v \in Semvers \ {NoSemver} :
        LET r == setVersion(packageJSON, disk.package, v)
        IN  packageJSON' = r.m /\ ret' = Returned(r)
    /\ UNCHANGED <<disk, pbx, buildGradle, events>>

PackageWrite ==
    /\ Call("packageJSON", "write")
    /\ disk' = [disk EXCEPT !.package = writePackageFile(packageJSON, @)]
    /\ packageJSON' = writePackageManager(packageJSON)
    /\ events' = IF packageJSON.loaded THEN Append(events, "write:package") ELSE events
    /\ ret' = NoReturn
    /\ UNCHANGED <<pbx, buildGradle>>

NextApi ==
    \/ PbxBumpProjectVersion
    \/ PbxSetMarketingVersion
    \/ PbxGetCurrentMarketingVersion
    \/ PbxGetCurrentProjectVersion
    \/ PbxWrite
    \/ GradleBumpCode
    \/ GradleSetVersionName
    \/ GradleGetVersionName
    \/ GradleGetVersionCode
    \/ GradleWrite
    \/ PackageGetVersion
    \/ PackageSetVersion
    \/ PackageWrite

SpecApi == InitApi /\ [][NextApi]_vars

\* =========================================================== properties

Has(e) == \E i \in 1..Len(events) : events[i] = e

Count(e) == Cardinality({i \in 1..Len(events) : events[i] = e})

WriteEvents == {"write:ios", "write:android", "write:package", "write:summary"}

NoWriteYet == \A i \in 1..Len(events) : events[i] \notin WriteEvents

DryRunPcs ==
    {"dryRun", "bumpCodes.ios", "bumpCodes.android", "checkType",
     "syncSemver.ios", "syncSemver.android", "syncSemver.package"}

Kinds == {"major", "minor", "patch"}

\* The files the interface section of the specification calls for.
WellFormedIos(f) == FirstMatch("code", f) # 0 /\ FirstMatch("mv", f) # 0

WellFormedAndroid(f) ==
    /\ FirstMatch("vcode", f) # 0
    /\ FirstMatch("vname", f) # 0
    /\ f[FirstMatch("vname", f)].v # <<>>

WellFormedPackage(p) == p.valid /\ p.version \in {V_1_10_6, V_9_9_9}

WellFormed(d) ==
    WellFormedIos(d.ios) /\ WellFormedAndroid(d.android) /\ WellFormedPackage(d.package)

\* The increments of the manifest versions, written out by hand.
Incremented(v, kind) ==
    CASE v = V_1_10_6 /\ kind = "major" -> <<"2", ".", "0", ".", "0">>
      [] v = V_1_10_6 /\ kind = "minor" -> <<"1", ".", "1", "1", ".", "0">>
      [] v = V_1_10_6 /\ kind = "patch" -> <<"1", ".", "1", "0", ".", "7">>
      [] v = V_9_9_9 /\ kind = "major" -> <<"1", "0", ".", "0", ".", "0">>
      [] v = V_9_9_9 /\ kind = "minor" -> <<"9", ".", "1", "0", ".", "0">>
      [] v = V_9_9_9 /\ kind = "patch" -> <<"9", ".", "9", ".", "1", "0">>

\* The decimal numerals the checks need, written out by hand.
Numeral(n) ==
    CASE n = 9 -> <<"9">>
      [] n = 10 -> <<"1", "0">>
      [] n = 11 -> <<"1", "1">>
      [] n = 12 -> <<"1", "2">>
      [] n = 13 -> <<"1", "3">>
      [] n = 14 -> <<"1", "4">>
      [] n = 23 -> <<"2", "3">>
      [] n = 24 -> <<"2", "4">>
      [] n = 25 -> <<"2", "5">>
      [] n = 26 -> <<"2", "6">>
      [] n = 27 -> <<"2", "7">>
      [] n = 28 -> <<"2", "8">>
      [] n = 29 -> <<"2", "9">>

\* The value of the counter texts of the input files, written out by hand.
CounterValue(t) ==
    CASE t = <<"9">> -> 9
      [] t = <<"0", "9">> -> 9
      [] t = <<"2", "3">> -> 23
      [] t = <<"2", "4">> -> 24

FirstCounter(kind, f) == CounterValue(f[FirstMatch(kind, f)].v)

\* File f with every line of kind `kind` holding text t.
WithAll(kind, t, f) ==
    [i \in 1..Len(f) |-> IF f[i].k = kind THEN [f[i] EXCEPT !.v = t] ELSE f[i]]

\* File f with its first line of kind `kind` holding text t.
WithFirst(kind, t, f) == [f EXCEPT ![FirstMatch(kind, f)].v = t]

\* The lines of buffer m that are of kind `kind` are those of file f.
SameLines(kind, m, f) ==
    /\ Len(m.text) = Len(f)
    /\ \A i \in 1..Len(f) : (f[i].k = kind \/ m.text[i].k = kind) => m.text[i] = f[i]

\* ---------------------------------------------------------------- C1
\* C1: if run() fails inside dryRun(), including a failure to read, no file
\* has been written: the files on disk are those the invocation started
\* with; and dryRun() writes nothing while it runs.
C1_NoWriteOnDryRunFailure ==
    (pc \in DryRunPcs \/ (pc = "failed" /\ failedAt \in DryRunPcs))
        => disk = disk0 /\ NoWriteYet

\* C1 witness: dryRun() fails at the Android version name after the iOS
\* buffer was changed in memory.
C1_Witness ==
    /\ pc = "failed"
    /\ failedAt = "syncSemver.android"
    /\ pbx.loaded /\ pbx.text # disk0.ios
    /\ disk = disk0

\* ---------------------------------------------------------------- C2
KindErrors == {"is not a semver type", "SemVer type not specified"}

VersionTags ==
    {"iOS project.pbxproj version", "Android gradle.build version", "package.json"}

\* Every field sync has rewritten so far holds version v.
SyncedTo(v) ==
    /\ \A i \in 1..Len(out) : out[i].tag \in VersionTags => out[i].next = v
    /\ Has("log:ios.version") =>
            \A i \in 1..Len(pbx.text) : pbx.text[i].k = "mv" => pbx.text[i].v = v
    /\ Has("log:android.version") =>
            LET i == FirstMatch("vname", disk0.android)
            IN  buildGradle.text[i].v = IF disk0.android[i].v = <<>> THEN <<>> ELSE v
    /\ Has("log:package") => packageJSON.text = v

C3_PatternNotFoundIsFatal ==
    /\ (Has("bump:ios") /\ FirstMatch("code", disk0.ios) = 0) =>
            pc = "failed" /\ failedAt = "bumpCodes.ios" /\ NoWriteYet
    /\ (Has("bump:android") /\ FirstMatch("vcode", disk0.android) = 0) =>
            pc = "failed" /\ failedAt = "bumpCodes.android" /\ NoWriteYet
    /\ (Has("set:ios") /\ FirstMatch("mv", disk0.ios) = 0) =>
            pc = "failed" /\ failedAt = "syncSemver.ios" /\ NoWriteYet
    /\ (Has("set:android") /\ FirstMatch("vname", disk0.android) = 0) =>
            pc = "failed" /\ failedAt = "syncSemver.android" /\ NoWriteYet
    /\ disk.summary.exists =>
            /\ FirstMatch("code", disk0.ios) # 0
            /\ FirstMatch("mv", disk0.ios) # 0
            /\ FirstMatch("vcode", disk0.android) # 0
            /\ FirstMatch("vname", disk0.android) # 0
    /\ (pc = "failed" /\ failedAt = "saveVersionFile") => NoWriteYet

\* ---------------------------------------------------------------- C4
\* C4: run() with both skip sets empty, no explicit version, kind K and
\* well-formed files holding manifest version M.m.p and counters a and b
\* ends with the manifest version, every MARKETING_VERSION and the
\* versionName at the increment of M.m.p by K, the iOS counters at a+1, the
\* Android counter at b+1, and, when a version file is configured, a
\* summary holding exactly these values (none otherwise).
C4_EndToEnd ==
    (/\ pc = "done"
     /\ cfg.skipSemverFor = {} /\ cfg.skipCodeFor = {}
     /\ cfg.semver = NoSemver /\ cfg.type \in Kinds
     /\ WellFormed(disk0)) =>
        LET v == Incremented(disk0.package.version, cfg.type)
            a1 == Numeral(FirstCounter("code", disk0.ios) + 1)
            b1 == Numeral(FirstCounter("vcode", disk0.android) + 1)
        IN  /\ disk.package = [valid |-> TRUE, version |-> v]
            /\ disk.ios = WithAll("mv", v, WithAll("code", a1, disk0.ios))
            /\ disk.android = WithFirst("vname", v, WithFirst("vcode", b1, disk0.android))
            /\ disk.summary =
                 IF cfg.versionFile # NoVersionFile
                 THEN [exists |-> TRUE,
                       android |-> [versionName |-> v, versionCode |-> b1],
                       ios |-> [versionName |-> v, versionCode |-> a1]]
                 ELSE NoSummary

\* C4 witness: the scenario of the README: 1.10.6, counters 24 and 23,
\* patch, a version file.
C4_Witness ==
    /\ pc = "done"
    /\ cfg.skipSemverFor = {} /\ cfg.skipCodeFor = {}
    /\ cfg.semver = NoSemver /\ cfg.type = "patch"
    /\ cfg.versionFile # NoVersionFile
    /\ disk0.ios = DefaultIos /\ disk0.android = DefaultAndroid
    /\ disk0.package = DefaultPackage
    /\ disk.summary.ios.versionCode = <<"2", "5">>
    /\ disk.summary.android.versionCode = <<"2", "4">>
    /\ disk.summary.android.versionName = <<"1", ".", "1", "0", ".", "7">>

\* ---------------------------------------------------------------- C5
SkipsCode(p) == p \in cfg.skipCodeFor \/ "all" \in cfg.skipCodeFor

SkipsSemver(p) == p \in cfg.skipSemverFor \/ "all" \in cfg.skipSemverFor

NoLine(tag) == \A i \in 1..Len(out) : out[i].tag # tag

PastBumpCodes ==
    pc \in {"checkType", "syncSemver.ios", "syncSemver.android", "syncSemver.package",
            "write.pbx", "write.buildGradle", "write.package", "saveVersionFile", "done"}

PastSyncSemver ==
    pc \in {"write.pbx", "write.buildGradle", "write.package", "saveVersionFile", "done"}

\* What a skip set leaves alone, at any point of run().
C5_State ==
    /\ SkipsCode("ios") =>
            /\ ~Has("bump:ios") /\ ~Has("log:ios.code")
            /\ NoLine("iOS project.pbxproj code")
            /\ pbx.loaded => SameLines("code", pbx, disk0.ios)
    /\ SkipsCode("android") =>
            /\ ~Has("bump:android") /\ ~Has("log:android.code")
            /\ NoLine("Android build.gradle code")
            /\ buildGradle.loaded => SameLines("vcode", buildGradle, disk0.android)
    /\ SkipsSemver("ios") =>
            /\ ~Has("set:ios") /\ ~Has("log:ios.version")
            /\ NoLine("iOS project.pbxproj version")
            /\ pbx.loaded => SameLines("mv", pbx, disk0.ios)
    /\ SkipsSemver("android") =>
            /\ ~Has("set:android") /\ ~Has("log:android.version")
            /\ NoLine("Android gradle.build version")
            /\ buildGradle.loaded => SameLines("vname", buildGradle, disk0.android)
    /\ (SkipsCode("ios") /\ SkipsSemver("ios") /\ pbx.loaded) => pbx.text = disk0.ios
    /\ (SkipsCode("android") /\ SkipsSemver("android") /\ buildGradle.loaded) =>
            buildGradle.text = disk0.android
    /\ (PastBumpCodes /\ ~SkipsCode("ios")) => Has("bump:ios") /\ Has("log:ios.code")
    /\ (PastBumpCodes /\ ~SkipsCode("android")) =>
            Has("bump:android") /\ Has("log:android.code")
    /\ (PastSyncSemver /\ ~SkipsSemver("ios")) =>
            Has("set:ios") /\ Has("log:ios.version")
    /\ (PastSyncSemver /\ ~SkipsSemver("android")) =>
            Has("set:android") /\ Has("log:android.version")

\* What the step of a skipped platform leaves alone.
C5_Step ==
    /\ (pc = "bumpCodes.ios" /\ "ios" \in cfg.skipCodeFor) =>
            UNCHANGED <<pbx, out, events>>
    /\ (pc = "bumpCodes.android" /\ "android" \in cfg.skipCodeFor) =>
            UNCHANGED <<buildGradle, out, events>>
    /\ (pc = "syncSemver.ios" /\ "ios" \in cfg.skipSemverFor) =>
            UNCHANGED <<pbx, out, events>>
    /\ (pc = "syncSemver.android" /\ "android" \in cfg.skipSemverFor) =>
            UNCHANGED <<buildGradle, out, events>>

\* C5: a platform in the skip-counter-bump set (or skipped through all) has
\* its buffer untouched by bumpCodes(), its counter unchanged by dryRun()
\* and no counter progress line; a platform in the skip-version-sync set
\* (or all) likewise for its version name; a platform skipped for both
\* keeps its buffer as read; the platform that is not skipped is processed.
C5_SkipSemantics == [][C5_Step /\ C5_State']_vars

\* C5 witness: the Android counter is skipped, the iOS counter is bumped
\* and the Android version name is still synced.
C5_Witness ==
    /\ cfg.skipCodeFor = {"android"}
    /\ cfg.skipSemverFor = {}
    /\ pc = "done"
    /\ Has("bump:ios") /\ Has("set:android")
    /\ buildGradle.text # disk0.android
    /\ SameLines("vcode", buildGradle, disk0.android)

\* ---------------------------------------------------------------- C6
\* C6: with version sync skipped for all, no release kind and no explicit
\* version, no step of run() on well-formed files fails; at its end it has
\* bumped exactly the counters the skip-counter-bump set allows and left
\* the manifest version and both version names as they were.
C6_KindOptionalWhenSyncSkipped ==
    (/\ "all" \in cfg.skipSemverFor
     /\ cfg.type = NoType /\ cfg.semver = NoSemver
     /\ WellFormed(disk0)) =>
        /\ pc # "failed" /\ err = "none"
        /\ pc = "done" =>
            LET a1 == Numeral(FirstCounter("code", disk0.ios) + 1)
                b1 == Numeral(FirstCounter("vcode", disk0.android) + 1)
            IN  /\ disk.package = disk0.package
                /\ disk.ios = IF SkipsCode("ios") THEN disk0.ios
                              ELSE WithAll("code", a1, disk0.ios)
                /\ disk.android = IF SkipsCode("android") THEN disk0.android
                                  ELSE WithFirst("vcode", b1, disk0.android)
                /\ NoLine("iOS project.pbxproj version")
                /\ NoLine("Android gradle.build version")
                /\ NoLine("package.json")

\* C6 witness: such a run ends having bumped both counters.
C6_Witness ==
    /\ "all" \in cfg.skipSemverFor
    /\ cfg.type = NoType /\ cfg.semver = NoSemver
    /\ cfg.skipCodeFor = {}
    /\ WellFormed(disk0)
    /\ pc = "done"
    /\ disk.ios # disk0.ios /\ disk.android # disk0.android

\* ---------------------------------------------------------------- C7
Canonical ==
    <<"bump:ios", "log:ios.code", "bump:android", "log:android.code",
      "set:ios", "log:ios.version", "set:android", "log:android.version",
      "set:package", "log:package",
      "write:ios", "write:android", "write:package",
      "write:summary", "log:summary">>

RECURSIVE IsSubseq(_, _)
IsSubseq(s, t) ==
    IF s = <<>> THEN TRUE
    ELSE IF t = <<>> THEN FALSE
    ELSE IF Head(s) = Head(t) THEN IsSubseq(Tail(s), Tail(t))
    ELSE IsSubseq(s, Tail(t))

LogOf(e) ==
    CASE e = "bump:ios" -> "log:ios.code"
      [] e = "bump:android" -> "log:android.code"
      [] e = "set:ios" -> "log:ios.version"
      [] e = "set:android" -> "log:android.version"
      [] e = "set:package" -> "log:package"
      [] e = "write:summary" -> "log:summary"
      [] OTHER -> "none"

\* C7: the events of run() occur in the fixed order iOS counter, Android
\* counter, iOS version, Android version, manifest version, then the writes
\* of the iOS file, the Android file and the manifest, then the summary;
\* in a run that ends, each is followed at once by its progress line, the
\* manifest is written, and the summary is written exactly when a version
\* file is configured.  The files change only through these writes.
C7_Ordering ==
    /\ IsSubseq(events, Canonical)
    /\ NoWriteYet => disk = disk0
    /\ pc = "done" =>
        /\ \A i \in 1..Len(events) :
                LogOf(events[i]) # "none" =>
                    i < Len(events) /\ events[i + 1] = LogOf(events[i])
        /\ Has("write:package")
        /\ Has("write:summary") <=> cfg.versionFile # NoVersionFile
        /\ disk.summary.exists <=> cfg.versionFile # NoVersionFile

\* C7 witness: a run in which every step happens.
C7_Witness == pc = "done" /\ events = Canonical

\* ---------------------------------------------------------------- C8
PopulatedInDryRun(p) == Has("bump:" \o p) \/ Has("set:" \o p)

\* C8 (amended): in a completed run() a platform manager's file is written
\* exactly once if dryRun() populated its buffer with non-empty content,
\* and not at all otherwise: not when the buffer is populated only by
\* saveVersionFile() after the write-backs, nor when the content is empty;
\* the manifest is written exactly once; no manager reads its file more
\* than once.
C8_WrittenOnceIfNonEmptyAtWriteBack ==
    /\ pbx.nread <= 1 /\ buildGradle.nread <= 1 /\ packageJSON.nread <= 1
    /\ pc = "done" =>
        /\ Count("write:ios") =
              IF PopulatedInDryRun("ios") /\ pbx.text # <<>> THEN 1 ELSE 0
        /\ Count("write:android") =
              IF PopulatedInDryRun("android") /\ buildGradle.text # <<>> THEN 1 ELSE 0
        /\ Count("write:package") = 1
        /\ Count("write:ios") = 1 => disk.ios = pbx.text
        /\ Count("write:android") = 1 => disk.android = buildGradle.text
        /\ Count("write:ios") = 0 => disk.ios = disk0.ios
        /\ Count("write:android") = 0 => disk.android = disk0.android

\* C8 witness: a completed run in which the iOS buffer was populated only
\* for the summary and never written, while the Android file was written.
C8_Witness ==
    /\ pc = "done"
    /\ pbx.loaded /\ Count("write:ios") = 0
    /\ Count("write:android") = 1

\* C8 as stated: in a completed run() a manager's file is written exactly
\* once if its buffer was populated, whatever the content read, and not at
\* all otherwise; no manager reads its file more than once.
C8_Original ==
    /\ pbx.nread <= 1 /\ buildGradle.nread <= 1 /\ packageJSON.nread <= 1
    /\ pc = "done" =>
        /\ Count("write:ios") = IF pbx.loaded THEN 1 ELSE 0
        /\ Count("write:android") = IF buildGradle.loaded THEN 1 ELSE 0
        /\ Count("write:package") = IF packageJSON.loaded THEN 1 ELSE 0

\* ---------------------------------------------------------------- C9
\* C9 (amended): whatever the sequence of a manager's operations, its
\* path-resolution function is invoked once by each read of the file and
\* once more by every write() that persists the buffer, so twice by a read
\* followed by a write(); a platform manager reads its file at most once,
\* and so does the manifest manager once its file has parsed.
C9_PathResolvedPerReadAndWrite ==
    /\ pbx.nresolve = pbx.nread + Count("write:ios")
    /\ buildGradle.nresolve = buildGradle.nread + Count("write:android")
    /\ packageJSON.nresolve = packageJSON.nread + Count("write:package")
    /\ pbx.nread <= 1 /\ buildGradle.nread <= 1
    /\ disk0.package.valid => packageJSON.nread <= 1
    /\ pbx.nread = 0 <=> ~pbx.loaded
    /\ buildGradle.nread = 0 <=> ~buildGradle.loaded

\* C9 witness: a bump and two writes of the iOS manager resolve its path
\* three times.
C9_Witness ==
    /\ Len(calls) = 3
    /\ calls[1].op = "bumpProjectVersion"
    /\ calls[2].op = "write" /\ calls[3].op = "write"
    /\ pbx.nread = 1
    /\ pbx.nresolve = 3

\* C9 as stated: whatever the sequence of a manager's operations, its
\* path-resolution function is invoked at most once.
C9_Original ==
    pbx.nresolve <= 1 /\ buildGradle.nresolve <= 1 /\ packageJSON.nresolve <= 1

\* --------------------------------------------------------------- C10
Called(op) == {i \in 1..Len(calls) : calls[i].op = op}

LastCall == calls[Len(calls)].op

\* C10: on a buffer whose first counter assignment holds c, after n >= 1
\* calls of bumpProjectVersion() every counter assignment holds c+n, the
\* last bump returned (c+n-1, c+n), getCurrentProjectVersion() returns c+n
\* (c before any bump), the file was read once, and no other line changed
\* (a MARKETING_VERSION line only by setMarketingVersion).
C10_CounterRoundTrip ==
    (/\ calls # <<>>
     /\ calls[1].mgr = "pbx"
     /\ FirstMatch("code", disk0.ios) # 0) =>
        LET n == Cardinality(Called("bumpProjectVersion"))
            c == FirstCounter("code", disk0.ios)
        IN  /\ pbx.loaded => Len(pbx.text) = Len(disk0.ios)
            /\ pbx.loaded => \A i \in 1..Len(disk0.ios) :
                 pbx.text[i] =
                    IF disk0.ios[i].k = "code" /\ n >= 1
                    THEN Code(Numeral(c + n))
                    ELSE IF disk0.ios[i].k = "mv" /\ Called("setMarketingVersion") # {}
                    THEN MV(V_2_0_0)
                    ELSE disk0.ios[i]
            /\ LastCall = "bumpProjectVersion" =>
                 /\ ret.err = "none"
                 /\ ret.current = Numeral(c + n - 1)
                 /\ ret.next = Numeral(c + n)
            /\ LastCall = "getCurrentProjectVersion" => ret.num = c + n
            /\ pbx.nread <= 1

\* C10 witness: two bumps of a file with two different counter assignments,
\* then the getter.
C10_Witness ==
    /\ Len(calls) = 3
    /\ calls[1].op = "bumpProjectVersion"
    /\ calls[2].op = "bumpProjectVersion"
    /\ calls[3].op = "getCurrentProjectVersion"
    /\ Len(disk0.ios) = 4
    /\ disk0.ios[1] = Code(<<"9">>)
    /\ disk0.ios[3] = Code(<<"2", "4">>)
    /\ pbx.text[3] = Code(<<"1", "1">>)
    /\ ret.num = 11

=============================================================================
